---- MODULE Spec2Model ----
(***************************************************************************)
(* Model of the interrogator (modules/interrogator/interrogate.py) and of  *)
(* the LDSR upscaler (modules/upsampler/ldsr_model.py).                     *)
(*                                                                         *)
(* Strings are sequences of one-character strings, so that the regular     *)
(* expression search, int(), str.strip() and string concatenation are      *)
(* computed character by character.  The pretrained networks and the       *)
(* library calls are black boxes: each may raise, and each numeric result  *)
(* is drawn from a small set.                                               *)
(***************************************************************************)
EXTENDS Integers, Sequences, FiniteSets, TLC

VARIABLES
    \* ---- InterrogateModels.__init__ -------------------------------------
    dirExists,      \* os.path.exists(content_dir)
    content,        \* the files of content_dir, in os.listdir order
    fi,             \* index of the file the loop of __init__ is at
    initPc,         \* "new" | "loop" | "done"
    categories,     \* self.categories
    \* ---- options ----------------------------------------------------------
    cfg,            \* keep, lowvram, no_half, use_artists, dict_limit
    artists,        \* names of cmd_opts.artist_db.artists
    \* ---- InterrogateModels: handles and one interrogate call ------------
    blip_model,     \* self.blip_model
    clip_model,     \* self.clip_model (clip_preprocess is set with it)
    dtype,          \* self.dtype
    pc,             \* position inside interrogate
    res,            \* the local res: [none |-> BOOLEAN, str |-> string]
    caption,        \* the local caption, once generate_caption returned
    ci,             \* index of the category the loop is at
    ret,            \* what the call handed to its caller
    trace,          \* device and gc events of the current call, in order
    parts,          \* labels appended to res in the current call, in order
    rk,             \* arguments and result of the last rank call
    calls,          \* calls into the interrogator started
    loaderCalls,    \* every invocation of load_blip_model / load_clip_model
    \* ---- UpscalerLDSR.do_upscale / LDSR.super_resolution ----------------
    upc,            \* position inside do_upscale / super_resolution
    img,            \* the input image: [w, h]
    scale,          \* self.scale, the target scale
    ldsr,           \* the LDSR object of this call: "None" | "LDSR"
    model,          \* the diffusion model of this call
    lowres,         \* the image handed to run(): [w, h]
    utrace,         \* events of the current do_upscale call, in order
    uret,           \* what do_upscale handed to its caller
    ucalls,         \* do_upscale calls started
    held            \* models of earlier calls that were never released

initVars == <<dirExists, content, fi, initPc, categories>>
optVars  == <<cfg, artists>>
irVars   == <<blip_model, clip_model, dtype, pc, res, caption, ci, ret, trace,
              parts, rk, calls, loaderCalls>>
upVars   == <<upc, img, scale, ldsr, model, lowres, utrace, uret, ucalls, held>>
vars     == <<initVars, optVars, irVars, upVars>>

(***************************************************************************)
(* Bounds of the model.                                                    *)
(***************************************************************************)
MaxNameTokens == 5   \* pieces a file name is made of
MaxScore      == 1   \* softmax outputs are quantised to 0..MaxScore
MaxLimit      == 2   \* opts.interrogate_clip_dict_limit ranges over 0..MaxLimit
MaxCalls      == 2   \* calls into the interrogator per behaviour
MaxDim        == 5   \* image width and height range over 1..MaxDim
MaxScale      == 5   \* target scale ranges over 1..MaxScale
MaxUpscales   == 2   \* do_upscale calls per behaviour
MaxTop        == 3   \* top_count of a direct rank call ranges over 0..MaxTop

Min(a, b) == IF a <= b THEN a ELSE b

(***************************************************************************)
(* Characters and strings.                                                 *)
(***************************************************************************)
Digits     == {"0", "1", "2", "3", "4", "5", "6", "7", "8", "9"}
Whitespace == {" ", "\t", "\n"}

DigitVal(c) ==
    CASE c = "0" -> 0 [] c = "1" -> 1 [] c = "2" -> 2 [] c = "3" -> 3
      [] c = "4" -> 4 [] c = "5" -> 5 [] c = "6" -> 6 [] c = "7" -> 7
      [] c = "8" -> 8 [] c = "9" -> 9

RECURSIVE IntOf(_)
\* int(m.group(1)): the decimal value of a string of digits
IntOf(ds) ==
    IF ds = <<>> THEN 0
    ELSE 10 * IntOf(SubSeq(ds, 1, Len(ds) - 1)) + DigitVal(ds[Len(ds)])

RECURSIVE DigitsEnd(_, _)
\* \d+ is greedy: the first position at or after k that holds no digit
DigitsEnd(s, k) ==
    IF k <= Len(s) /\ s[k] \in Digits THEN DigitsEnd(s, k + 1) ELSE k

\* re_topn matched at position i of s: r"\.top(\d+)\."
MatchAt(s, i) ==
    /\ i + 3 <= Len(s)
    /\ s[i] = "." /\ s[i + 1] = "t" /\ s[i + 2] = "o" /\ s[i + 3] = "p"
    /\ LET k == DigitsEnd(s, i + 4)
       IN  k > i + 4 /\ k <= Len(s) /\ s[k] = "."

RECURSIVE SearchFrom(_, _)
\* re_topn.search(filename): the leftmost position that matches, 0 for None
SearchFrom(s, i) ==
    IF i > Len(s) THEN 0
    ELSE IF MatchAt(s, i) THEN i
    ELSE SearchFrom(s, i + 1)

\* re_topn.match in place of re_topn.search: anchored at the start
re_topn_match(s) == IF MatchAt(s, 1) THEN 1 ELSE 0

re_topn_search(s) == SearchFrom(s, 1)

\* m.group(1) of a match at position i
Group1(s, i) == SubSeq(s, i + 4, DigitsEnd(s, i + 4) - 1)

\* topn = 1 if m is None else int(m.group(1))
TopnOf(filename) ==
    LET m == re_topn_search(filename)
    IN  IF m = 0 THEN 1 ELSE IntOf(Group1(filename, m))

RECURSIVE LStrip(_)
LStrip(s) ==
    IF s # <<>> /\ s[1] \in Whitespace THEN LStrip(Tail(s)) ELSE s

RECURSIVE RStrip(_)
RStrip(s) ==
    IF s # <<>> /\ s[Len(s)] \in Whitespace
    THEN RStrip(SubSeq(s, 1, Len(s) - 1)) ELSE s

\* x.strip()
Strip(s) == RStrip(LStrip(s))

\* lines = [x.strip() for x in file.readlines()]
StripLines(raw) == [i \in 1..Len(raw) |-> Strip(raw[i])]

\* Category(name=filename, topn=topn, items=lines)
CategoryOf(file) ==
    [name |-> file.name, topn |-> TopnOf(file.name), items |-> StripLines(file.lines)]

RECURSIVE LoadCategories(_)
\* the whole loop of __init__ over a listing
LoadCategories(files) ==
    IF files = <<>> THEN <<>>
    ELSE <<CategoryOf(files[1])>> \o LoadCategories(Tail(files))

(***************************************************************************)
(* InterrogateModels.__init__                                              *)
(***************************************************************************)
Str_top == <<".", "t", "o", "p">>

\* The pieces file names are made of, and the file names.
NameTokens == {Str_top, <<".">>, <<"1">>, <<"2">>, <<"x">>}

RECURSIVE Flatten(_)
Flatten(ss) == IF ss = <<>> THEN <<>> ELSE ss[1] \o Flatten(Tail(ss))

FileNames ==
    {Flatten(ts) : ts \in UNION {[1..n -> NameTokens] : n \in 1..MaxNameTokens}}

\* What readlines() returns for the label files of the model.
RawLinesA == << <<" ", "a", "\n">>, <<"b", "\t", "\n">>, <<"\n">>, <<"a", " ", "b">> >>
RawLinesB == << <<"c", "\n">>, <<"d", "\n">>, <<"e", "\n">> >>
RawLinesC == << <<"f", "\n">>, <<"g">> >>

\* Two label files of a usual content directory: x.top2.x and x.x
FlavorsFile == [name |-> <<"x">> \o Str_top \o <<"2", ".", "x">>, lines |-> RawLinesB]
MediumsFile == [name |-> <<"x", ".", "x">>, lines |-> RawLinesC]

Files == {[name |-> n, lines |-> l] : n \in FileNames, l \in {<<>>, RawLinesA}}

Listings ==
    {<<>>} \cup {<<f>> : f \in Files}
           \cup {<<f, FlavorsFile>> : f \in Files}
           \cup {<<MediumsFile, f>> : f \in Files}

\* self.categories = []; if os.path.exists(content_dir): ...
InitStart ==
    /\ initPc = "new"
    /\ categories' = <<>>
    /\ fi' = 1
    /\ initPc' = IF dirExists THEN "loop" ELSE "done"
    /\ UNCHANGED <<dirExists, content, optVars, irVars, upVars>>

\* one turn of: for filename in os.listdir(content_dir)
InitFile ==
    /\ initPc = "loop"
    /\ fi <= Len(content)
    /\ categories' = Append(categories, CategoryOf(content[fi]))
    /\ fi' = fi + 1
    /\ UNCHANGED <<dirExists, content, initPc, optVars, irVars, upVars>>

\* the listing is exhausted: __init__ returns
InitReturn ==
    /\ initPc = "loop"
    /\ fi > Len(content)
    /\ initPc' = "done"
    /\ UNCHANGED <<dirExists, content, fi, categories, optVars, irVars, upVars>>

(***************************************************************************)
(* InterrogateModels: model handles                                        *)
(***************************************************************************)
Str_sep   == <<",", " ">>
Str_by    == <<"b", "y", " ">>
Str_error == <<"<", "e", "r", "r", "o", "r", ">">>

\* A handle that is None, and the local res = None.
NoModel == [loaded |-> FALSE, dev |-> "none", half |-> FALSE]
NoneRes == [none |-> TRUE, str |-> <<>>]
NoRank  == [called |-> FALSE, text_array |-> <<>>, top_count |-> 0,
            scores |-> <<>>, out |-> <<>>, result |-> <<>>]
NoRet   == [kind |-> "none", value |-> NoneRes]

\* model.to(devices.cpu), model.to(cmd_opts.device), model.half()
ToCpu(m)  == [m EXCEPT !.dev = "cpu"]
ToGpu(m)  == [m EXCEPT !.dev = "gpu"]
ToHalf(m) == [m EXCEPT !.half = TRUE]

\* next(self.clip_model.parameters()).dtype
DtypeOf(m) == IF m.half THEN "float16" ELSE "float32"

\* a send_*_to_ram that leaves the model where it is
SendToRam_off(m) == m

\* send_clip_to_ram / send_blip_to_ram on one handle
SendToRam(m) ==
    IF ~cfg.keep
    THEN (IF m.loaded THEN ToCpu(m) ELSE m)
    ELSE m

\* the event send_clip_to_ram / send_blip_to_ram leaves in the trace
SendToRamEvents(m, name) ==
    IF ~cfg.keep /\ m.loaded THEN <<name>> ELSE <<>>

\* a load() that does not look at the handle
NeedsLoad_always(m) == TRUE

\* if self.blip_model is None / if self.clip_model is None
NeedsLoad(m) == ~m.loaded

\* load() run up to stage number stop, which raises (6: the whole of load()
\* ran).  Gives the two handles, dtype and the loader invocations made.
LoadRun(stop) ==
    LET b0 == blip_model
        bNew == NeedsLoad(b0)
        \* 62-65: load_blip_model(), then .half() unless no_half
        b1 == IF stop > 1 /\ bNew
              THEN (IF cfg.no_half THEN [loaded |-> TRUE, dev |-> "cpu", half |-> FALSE]
                    ELSE ToHalf([loaded |-> TRUE, dev |-> "cpu", half |-> FALSE]))
              ELSE b0
        \* 67: self.blip_model.to(cmd_opts.device)
        b2 == IF stop > 2 THEN ToGpu(b1) ELSE b1
        c0 == clip_model
        cNew == NeedsLoad(c0)
        \* 69-72: load_clip_model() places the model on devices.device
        c1 == IF stop > 3 /\ cNew
              THEN (IF cfg.no_half THEN [loaded |-> TRUE, dev |-> "gpu", half |-> FALSE]
                    ELSE ToHalf([loaded |-> TRUE, dev |-> "gpu", half |-> FALSE]))
              ELSE c0
        \* 74: self.clip_model.to(cmd_opts.device)
        c2 == IF stop > 4 THEN ToGpu(c1) ELSE c1
        \* 76: self.dtype
        d  == IF stop > 5 THEN DtypeOf(c2) ELSE dtype
        lb == IF bNew
              THEN <<[loader |-> "blip", wasNone |-> ~b0.loaded, ok |-> stop > 1]>>
              ELSE <<>>
        lc == IF stop >= 3 /\ cNew
              THEN <<[loader |-> "clip", wasNone |-> ~c0.loaded, ok |-> stop > 3]>>
              ELSE <<>>
    IN  [blip |-> b2, clip |-> c2, dtype |-> d, loaders |-> lb \o lc]

\* The stages at which load() can raise in the current state: a loader only
\* when it is invoked; stage 5 (reading dtype) cannot.
FailStages ==
    (IF NeedsLoad(blip_model) THEN {1} ELSE {}) \cup {2}
        \cup (IF NeedsLoad(clip_model) THEN {3} ELSE {}) \cup {4}

(***************************************************************************)
(* InterrogateModels.rank                                                  *)
(***************************************************************************)
\* text_array[0:int(opts.interrogate_clip_dict_limit)] when the limit is not 0
Truncate(text_array) ==
    IF cfg.dict_limit # 0
    THEN SubSeq(text_array, 1, Min(cfg.dict_limit, Len(text_array)))
    ELSE text_array

\* top_count = min(top_count, len(text_array))
TopCount(top_count, texts) == Min(top_count, Len(texts))

RECURSIVE SumScores(_, _, _)
\* similarity += softmax(...) over i in range(image_features.shape[0])
SumScores(scores, j, i) ==
    IF i > Len(scores) THEN 0 ELSE scores[i][j] + SumScores(scores, j, i + 1)

\* similarity /= image_features.shape[0]
Similarity(scores, n) ==
    [j \in 1..n |-> SumScores(scores, j, 1) \div Len(scores)]

\* a topk that takes any entry not yet taken
BestOf_unsorted(sim, rest) == rest

\* the entries topk may take next: the largest among those not yet taken
BestOf(sim, rest) == {i \in rest : \A j \in rest : sim[i] >= sim[j]}

RECURSIVE TopK(_, _, _)
\* similarity.topk(top_count): every order topk may return (ties are free)
TopK(sim, k, used) ==
    IF k = 0 THEN {<<>>}
    ELSE UNION {{<<i>> \o t : t \in TopK(sim, k - 1, used \cup {i})} :
                   i \in BestOf(sim, DOMAIN sim \ used)}

\* [(text_array[top_labels[0][i]], top_probs[0][i] * 100) for i in range(top_count)]
RankResult(texts, sim, out) ==
    [i \in 1..Len(out) |-> [label |-> texts[out[i]], score |-> sim[out[i]] * 100]]

\* What the networks may answer for n texts and e image embeddings.
ScoreRows(e, n) == [1..e -> [1..n -> 0..MaxScore]]

\* Every record a rank call that does not raise may leave.
RankCalls(e, text_array, top_count) ==
    LET texts == Truncate(text_array)
        k     == TopCount(top_count, texts)
    IN  UNION {{[called |-> TRUE, text_array |-> text_array, top_count |-> top_count,
                 scores |-> sc, out |-> o,
                 result |-> RankResult(texts, Similarity(sc, Len(texts)), o)] :
                   o \in TopK(Similarity(sc, Len(texts)), k, {})} :
                sc \in ScoreRows(e, Len(texts))}

(***************************************************************************)
(* InterrogateModels.interrogate                                           *)
(*                                                                         *)
(* pc is the statement the call is at:                                     *)
(*   idle, offload (133-135), load (137), caption (139), blip_to_ram       *)
(*   (140-143), encode (145-149), artist (151-154), cats (156-159),        *)
(*   except (161-164), unload (166-168), returned, raised; ranked after a  *)
(*   direct call of rank.                                                  *)
(***************************************************************************)
Captions == {<<"k">>, <<>>}

\* where the try block goes after the image is encoded / a rank step is done
AfterRank(i) == IF i <= Len(categories) THEN "cats" ELSE "unload"

\* res = None, and the call enters the try block
StartCall ==
    /\ pc = "idle"
    /\ calls < MaxCalls
    /\ calls' = calls + 1
    /\ res' = NoneRes
    /\ pc' = IF cfg.lowvram THEN "offload" ELSE "load"
    /\ UNCHANGED <<blip_model, clip_model, dtype, caption, ci, ret, trace, parts, rk,
                   loaderCalls, initVars, optVars, upVars>>

\* the caller has the outcome of the call; the call's locals are gone
Finish ==
    /\ pc \in {"returned", "raised", "ranked"}
    /\ pc' = "idle"
    /\ res' = NoneRes
    /\ caption' = <<>>
    /\ ci' = 1
    /\ ret' = NoRet
    /\ trace' = <<>>
    /\ parts' = <<>>
    /\ rk' = NoRank
    /\ UNCHANGED <<blip_model, clip_model, dtype, calls, loaderCalls,
                   initVars, optVars, upVars>>

\* 133-135: devices.send_everything_to_cpu(); devices.torch_gc()
Offload ==
    /\ pc = "offload"
    /\ \E done \in 0..2 :
          /\ trace' = trace \o SubSeq(<<"all_to_cpu", "gc">>, 1, done)
          /\ pc' = IF done = 2 THEN "load" ELSE "except"
    /\ UNCHANGED <<blip_model, clip_model, dtype, res, caption, ci, ret, parts, rk,
                   calls, loaderCalls, initVars, optVars, upVars>>

\* 137: self.load(), which raises at one of its stages or runs through
Load ==
    /\ pc = "load"
    /\ \E stop \in FailStages \cup {6} :
          LET r == LoadRun(stop)
          IN  /\ blip_model' = r.blip
              /\ clip_model' = r.clip
              /\ dtype' = r.dtype
              /\ loaderCalls' = loaderCalls \o r.loaders
              /\ trace' = trace \o (IF stop = 6 THEN <<"load">> ELSE <<>>)
              /\ pc' = IF stop = 6 THEN "caption" ELSE "except"
    /\ UNCHANGED <<res, caption, ci, ret, parts, rk, calls, initVars, optVars, upVars>>

\* 139: caption = self.generate_caption(pil_image)
GenerateCaption ==
    /\ pc = "caption"
    /\ \/ /\ \E c \in Captions : caption' = c
          /\ trace' = Append(trace, "caption")
          /\ pc' = "blip_to_ram"
       \/ /\ pc' = "except"
          /\ UNCHANGED <<caption, trace>>
    /\ UNCHANGED <<blip_model, clip_model, dtype, res, ci, ret, parts, rk, calls,
                   loaderCalls, initVars, optVars, upVars>>

\* 140-143: self.send_blip_to_ram(); devices.torch_gc(); res = caption
BlipToRam ==
    /\ pc = "blip_to_ram"
    /\ \/ \* .to(devices.cpu) raises
          /\ ~cfg.keep /\ blip_model.loaded
          /\ pc' = "except"
          /\ UNCHANGED <<blip_model, trace, res>>
       \/ \* torch_gc raises
          /\ blip_model' = SendToRam(blip_model)
          /\ trace' = trace \o SendToRamEvents(blip_model, "blip_to_cpu")
          /\ pc' = "except"
          /\ UNCHANGED res
       \/ /\ blip_model' = SendToRam(blip_model)
          /\ trace' = trace \o SendToRamEvents(blip_model, "blip_to_cpu") \o <<"gc">>
          /\ res' = [none |-> FALSE, str |-> caption]
          /\ pc' = "encode"
    /\ UNCHANGED <<clip_model, dtype, caption, ci, ret, parts, rk, calls,
                   loaderCalls, initVars, optVars, upVars>>

\* 145-149: clip_preprocess, encode_image, normalisation
EncodeImage ==
    /\ pc = "encode"
    /\ \/ /\ trace' = Append(trace, "encode_image")
          /\ pc' = IF cfg.use_artists THEN "artist" ELSE AfterRank(1)
       \/ /\ pc' = "except"
          /\ UNCHANGED trace
    /\ UNCHANGED <<blip_model, clip_model, dtype, res, caption, ci, ret, parts, rk,
                   calls, loaderCalls, initVars, optVars, upVars>>

\* ["by " + artist.name for artist in cmd_opts.artist_db.artists]
ArtistTexts == [i \in 1..Len(artists) |-> Str_by \o artists[i]]

\* 151-154: artist = self.rank(image_features, [...])[0]; res += ", " + artist[0]
RankArtist ==
    /\ pc = "artist"
    /\ \/ \E r \in RankCalls(1, ArtistTexts, 1) :
             /\ rk' = r
             /\ IF r.result = <<>>
                THEN \* [0] of an empty list: IndexError
                     /\ pc' = "except"
                     /\ UNCHANGED <<res, parts, trace>>
                ELSE /\ res' = [res EXCEPT !.str = @ \o Str_sep \o r.result[1].label]
                     /\ parts' = Append(parts, r.result[1].label)
                     /\ trace' = Append(trace, "rank")
                     /\ pc' = AfterRank(1)
       \/ \* rank raises
          /\ pc' = "except"
          /\ UNCHANGED <<res, parts, trace, rk>>
    /\ UNCHANGED <<blip_model, clip_model, dtype, caption, ci, ret, calls,
                   loaderCalls, initVars, optVars, upVars>>

RECURSIVE JoinLabels(_)
\* for match, score in matches: res += ", " + match
JoinLabels(matches) ==
    IF matches = <<>> THEN <<>>
    ELSE Str_sep \o matches[1].label \o JoinLabels(Tail(matches))

\* 156-159: one turn of the loop over self.categories
RankCategory ==
    /\ pc = "cats"
    /\ ci <= Len(categories)
    /\ \/ \E r \in RankCalls(1, categories[ci].items, categories[ci].topn) :
             /\ rk' = r
             /\ res' = [res EXCEPT !.str = @ \o JoinLabels(r.result)]
             /\ parts' = parts \o [i \in 1..Len(r.result) |-> r.result[i].label]
             /\ trace' = Append(trace, "rank")
             /\ ci' = ci + 1
             /\ pc' = AfterRank(ci + 1)
       \/ \* rank raises
          /\ pc' = "except"
          /\ UNCHANGED <<res, parts, trace, rk, ci>>
    /\ UNCHANGED <<blip_model, clip_model, dtype, caption, ret, calls,
                   loaderCalls, initVars, optVars, upVars>>

\* 161-164: the handler logs and runs res += "<error>", which is a TypeError
\* when res is still None; the TypeError leaves interrogate
Except ==
    /\ pc = "except"
    /\ IF res.none
       THEN /\ pc' = "raised"
            /\ ret' = [kind |-> "raise", value |-> NoneRes]
            /\ UNCHANGED res
       ELSE /\ res' = [res EXCEPT !.str = @ \o Str_error]
            /\ pc' = "unload"
            /\ UNCHANGED ret
    /\ trace' = Append(trace, "error")
    /\ UNCHANGED <<blip_model, clip_model, dtype, caption, ci, parts, rk, calls,
                   loaderCalls, initVars, optVars, upVars>>

\* 166-168: self.unload(); return res
Unload ==
    /\ pc = "unload"
    /\ clip_model' = SendToRam(clip_model)
    /\ blip_model' = SendToRam(blip_model)
    /\ trace' = trace \o SendToRamEvents(clip_model, "clip_to_cpu")
                      \o SendToRamEvents(blip_model, "blip_to_cpu") \o <<"gc">>
    /\ ret' = [kind |-> "return", value |-> res]
    /\ pc' = "returned"
    /\ UNCHANGED <<dtype, res, caption, ci, parts, rk, calls, loaderCalls,
                   initVars, optVars, upVars>>

\* rank called by itself, on any number of image embeddings, once the
\* ranking model is there (a None handle raises before anything is ranked)
EmbeddingCounts == {1, 2}

RankTexts == {categories[i].items : i \in 1..Len(categories)} \cup {ArtistTexts}

RankCall ==
    /\ pc = "idle"
    /\ calls < MaxCalls
    /\ calls' = calls + 1
    /\ clip_model.loaded
    /\ \E e \in EmbeddingCounts, ta \in RankTexts, tc \in 0..MaxTop :
          \E r \in RankCalls(e, ta, tc) : rk' = r
    /\ pc' = "ranked"
    /\ UNCHANGED <<blip_model, clip_model, dtype, res, caption, ci, ret, trace,
                   parts, loaderCalls, initVars, optVars, upVars>>

(***************************************************************************)
(* UpscalerLDSR.do_upscale, UpscalerLDSR.load_model, LDSR.super_resolution *)
(*                                                                         *)
(* upc is the statement the call is at:                                    *)
(*   idle, fetch (244-258), construct (260-266), check (269-273),          *)
(*   sr_load (94), sr_resize (96-119), sr_run (120-128),                   *)
(*   sr_release (130-133), returned, raised.                               *)
(***************************************************************************)
NativeScale == 4    \* down_sample_rate = target_scale / 4
UpF         == 4    \* get_cond: up_f = 4

NoImage == [w |-> 0, h |-> 0]
NoURet  == [kind |-> "none", image |-> NoImage]

\* down_sample_rate = target_scale / 4, kept as a fraction
DownSampleRate(target_scale) == [num |-> target_scale, den |-> NativeScale]

\* round() in place of int()
Downsampled_rounded(length, rate) == (2 * length * rate.num + rate.den) \div (2 * rate.den)

\* int(width_og * down_sample_rate): int() truncates, the product is >= 0
Downsampled(length, rate) == (length * rate.num) \div rate.den

\* if down_sample_rate != 1
MustResize(rate) == rate.num # rate.den

\* im_og.resize(...): PIL's Image.resize raises ValueError("height and width
\* must be > 0") for a size with a side below 1
ResizeRaises(size) == size.w < 1 \/ size.h < 1

\* 105-119: the image handed to run()
LowRes(image, target_scale) ==
    LET rate == DownSampleRate(target_scale)
    IN  IF MustResize(rate)
        THEN [w |-> Downsampled(image.w, rate), h |-> Downsampled(image.h, rate)]
        ELSE image

\* get_cond makes the sampler's target up_f times the image it is given, and
\* the decoded sample, hence the image returned, has that size
Sampled(image) == [w |-> UpF * image.w, h |-> UpF * image.h]

\* a do_upscale call begins; a model an earlier call left loaded is still
\* referenced from that call's traceback until the caller drops it
UpStart ==
    /\ upc \in {"idle", "returned", "raised"}
    /\ ucalls < MaxUpscales
    /\ ucalls' = ucalls + 1
    /\ \E w \in 1..MaxDim, h \in 1..MaxDim : img' = [w |-> w, h |-> h]
    /\ \E sc \in 1..MaxScale : scale' = sc
    /\ IF model = "gpu"
       THEN \E stays \in BOOLEAN : held' = IF stays THEN held + 1 ELSE held
       ELSE held' = held
    /\ ldsr' = "None"
    /\ model' = "none"
    /\ lowres' = NoImage
    /\ utrace' = <<>>
    /\ uret' = NoURet
    /\ upc' = "fetch"
    /\ UNCHANGED <<initVars, optVars, irVars>>

\* 244-258: the checks on model_path and the two load_file_from_url calls,
\* which are outside the try block
Fetch ==
    /\ upc = "fetch"
    /\ \/ /\ upc' = "construct"
          /\ utrace' = Append(utrace, "fetched")
          /\ UNCHANGED uret
       \/ /\ upc' = "raised"
          /\ uret' = [kind |-> "raise", image |-> NoImage]
          /\ utrace' = Append(utrace, "fetch_raised")
    /\ UNCHANGED <<img, scale, ldsr, model, lowres, ucalls, held,
                   initVars, optVars, irVars>>

\* 260-266: try: return LDSR(model, yaml); LDSR.__init__ only stores the two
\* paths, so nothing in the try block raises
Construct ==
    /\ upc = "construct"
    /\ ldsr' = "LDSR"
    /\ upc' = "check"
    /\ UNCHANGED <<img, scale, model, lowres, utrace, uret, ucalls, held,
                   initVars, optVars, irVars>>

\* 269-273: if ldsr is None: return img
CheckLdsr ==
    /\ upc = "check"
    /\ IF ldsr = "None"
       THEN /\ uret' = [kind |-> "return", image |-> img]
            /\ utrace' = Append(utrace, "no_ldsr")
            /\ upc' = "returned"
       ELSE /\ upc' = "sr_load"
            /\ UNCHANGED <<uret, utrace>>
    /\ UNCHANGED <<img, scale, ldsr, model, lowres, ucalls, held,
                   initVars, optVars, irVars>>

\* 94: model = self.load_model_from_config(half_attention); it may raise
\* before model.cuda() (29-33) or after it (36-38)
SrLoad ==
    /\ upc = "sr_load"
    /\ \/ /\ model' = "gpu"
          /\ utrace' = Append(utrace, "loaded")
          /\ upc' = "sr_resize"
          /\ UNCHANGED uret
       \/ /\ \E m \in {"none", "gpu"} : model' = m
          /\ upc' = "raised"
          /\ uret' = [kind |-> "raise", image |-> NoImage]
          /\ utrace' = Append(utrace, "load_raised")
    /\ UNCHANGED <<img, scale, ldsr, lowres, ucalls, held, initVars, optVars, irVars>>

\* 96-119: gc.collect(); torch.cuda.empty_cache(); the downsampling
SrResize ==
    /\ upc = "sr_resize"
    /\ LET rate == DownSampleRate(scale)
           size == LowRes(img, scale)
       IN  IF MustResize(rate) /\ ResizeRaises(size)
           THEN /\ upc' = "raised"
                /\ uret' = [kind |-> "raise", image |-> NoImage]
                /\ utrace' = utrace \o <<"gc", "resize_raised">>
                /\ UNCHANGED lowres
           ELSE /\ lowres' = size
                /\ utrace' = utrace \o <<"gc">>
                                    \o (IF MustResize(rate) THEN <<"resize">> ELSE <<>>)
                /\ upc' = "sr_run"
                /\ UNCHANGED uret
    /\ UNCHANGED <<img, scale, ldsr, model, ucalls, held, initVars, optVars, irVars>>

\* 120-128: logs = self.run(...) and the conversion of the sample
SrRun ==
    /\ upc = "sr_run"
    /\ \/ /\ upc' = "sr_release"
          /\ utrace' = Append(utrace, "sampled")
          /\ UNCHANGED uret
       \/ /\ upc' = "raised"
          /\ uret' = [kind |-> "raise", image |-> NoImage]
          /\ utrace' = Append(utrace, "run_raised")
    /\ UNCHANGED <<img, scale, ldsr, model, lowres, ucalls, held,
                   initVars, optVars, irVars>>

\* 130-133: del model; gc.collect(); torch.cuda.empty_cache(); return a
SrRelease ==
    /\ upc = "sr_release"
    /\ model' = "released"
    /\ utrace' = utrace \o <<"del", "gc">>
    /\ uret' = [kind |-> "return", image |-> Sampled(lowres)]
    /\ upc' = "returned"
    /\ UNCHANGED <<img, scale, ldsr, lowres, ucalls, held, initVars, optVars, irVars>>

(***************************************************************************)
(* Specifications                                                          *)
(***************************************************************************)
ArtistNames == <<<<"p">>, <<"q">>>>

InitIdleCategories ==
    /\ dirExists = TRUE
    /\ content = <<FlavorsFile, MediumsFile>>
    /\ fi = Len(content) + 1
    /\ initPc = "done"
    /\ categories = LoadCategories(content)

InitIdleInterrogator ==
    /\ blip_model = NoModel
    /\ clip_model = NoModel
    /\ dtype = "None"
    /\ pc = "idle"
    /\ res = NoneRes
    /\ caption = <<>>
    /\ ci = 1
    /\ ret = NoRet
    /\ trace = <<>>
    /\ parts = <<>>
    /\ rk = NoRank
    /\ calls = 0
    /\ loaderCalls = <<>>

InitIdleUpscaler ==
    /\ upc = "idle"
    /\ img = NoImage
    /\ scale = 1
    /\ ldsr = "None"
    /\ model = "none"
    /\ lowres = NoImage
    /\ utrace = <<>>
    /\ uret = NoURet
    /\ ucalls = 0
    /\ held = 0

Options ==
    [keep : BOOLEAN, lowvram : BOOLEAN, no_half : BOOLEAN, use_artists : BOOLEAN,
     dict_limit : 0..MaxLimit]

\* the interrogator, built over a usual content directory, under every option
Init ==
    /\ InitIdleCategories
    /\ cfg \in Options
    /\ artists \in (IF cfg.use_artists THEN {<<>>, ArtistNames} ELSE {ArtistNames})
    /\ InitIdleInterrogator
    /\ InitIdleUpscaler

Interrogate ==
    \/ StartCall \/ Offload \/ Load \/ GenerateCaption \/ BlipToRam
    \/ EncodeImage \/ RankArtist \/ RankCategory \/ Except \/ Unload \/ Finish

Next == Interrogate

Spec == Init /\ [][Next]_vars

\* the interrogator and direct calls of rank
InitRank ==
    /\ InitIdleCategories
    /\ cfg \in {o \in Options : ~o.keep /\ ~o.lowvram /\ ~o.no_half /\ o.use_artists}
    /\ artists = ArtistNames
    /\ InitIdleInterrogator
    /\ InitIdleUpscaler

NextRank ==
    \/ StartCall \/ Load \/ GenerateCaption \/ BlipToRam \/ EncodeImage
    \/ RankArtist \/ RankCategory \/ Except \/ Unload \/ Finish \/ RankCall

SpecRank == InitRank /\ [][NextRank]_vars

\* __init__ over every content directory of the model
InitCategories ==
    /\ dirExists \in BOOLEAN
    /\ content \in (IF dirExists THEN Listings ELSE {<<>>})
    /\ fi = 1
    /\ initPc = "new"
    /\ categories = <<>>
    /\ cfg = [keep |-> FALSE, lowvram |-> FALSE, no_half |-> FALSE,
              use_artists |-> FALSE, dict_limit |-> 0]
    /\ artists = ArtistNames
    /\ InitIdleInterrogator
    /\ InitIdleUpscaler

NextCategories == InitStart \/ InitFile \/ InitReturn

SpecCategories == InitCategories /\ [][NextCategories]_vars

\* the upscaler
InitLDSR ==
    /\ InitIdleCategories
    /\ cfg = [keep |-> FALSE, lowvram |-> FALSE, no_half |-> FALSE,
              use_artists |-> FALSE, dict_limit |-> 0]
    /\ artists = ArtistNames
    /\ InitIdleInterrogator
    /\ InitIdleUpscaler

NextLDSR ==
    \/ UpStart \/ Fetch \/ Construct \/ CheckLdsr \/ SrLoad \/ SrResize \/ SrRun
    \/ SrRelease

SpecLDSR == InitLDSR /\ [][NextLDSR]_vars

(***************************************************************************)
(* Properties                                                              *)
(***************************************************************************)
Range(q) == {q[i] : i \in 1..Len(q)}

EndsWith(str, suffix) ==
    /\ Len(suffix) <= Len(str)
    /\ SubSeq(str, Len(str) - Len(suffix) + 1, Len(str)) = suffix

\* the positions of an event in a trace
Positions(q, e) == {i \in 1..Len(q) : q[i] = e}

\* every a in q comes before every b in q
AllBefore(q, a, b) == \A i \in Positions(q, a), j \in Positions(q, b) : i < j

CallEnded == pc \in {"returned", "raised"}
Failed    == "error" \in Range(trace)

\* C1: interrogate never raises past the call boundary: every call hands a
\* string to its caller, and after a failure at any step the string carries
\* the marker "<error>".
C1_AlwaysReturnsString ==
    CallEnded =>
        /\ ret.kind = "return"
        /\ ~ret.value.none
        /\ Failed => EndsWith(ret.value.str, Str_error)

\* C3: when an interrogate call has ended, on the success path and on every
\* failure path: with the keep flag unset every loaded handle is in host
\* memory and torch_gc ran after the handles were moved; with the flag set
\* the loaded handles are where load() put them, on the accelerator.
C3_ModelsInHostMemoryAfterCall ==
    CallEnded =>
        /\ ~cfg.keep =>
              /\ blip_model.loaded => blip_model.dev = "cpu"
              /\ clip_model.loaded => clip_model.dev = "cpu"
              /\ trace # <<>> /\ trace[Len(trace)] = "gc"
        /\ (cfg.keep /\ "load" \in Range(trace)) =>
              /\ blip_model.dev = "gpu"
              /\ clip_model.dev = "gpu"

RECURSIVE JoinParts(_)
JoinParts(ps) ==
    IF ps = <<>> THEN <<>> ELSE Str_sep \o ps[1] \o JoinParts(Tail(ps))

\* C6: a failure after the caption has been generated leaves exactly the
\* partial result (the caption, then ", " + label for every label appended
\* before the failing step, in order) followed by "<error>" once, at the end.
C6_PartialResultThenMarker ==
    (CallEnded /\ Failed /\ "caption" \in Range(trace)) =>
        /\ ret.kind = "return"
        /\ ~ret.value.none
        /\ ret.value.str = caption \o JoinParts(parts) \o Str_error

OkLoads(loader) ==
    {i \in 1..Len(loaderCalls) : loaderCalls[i].loader = loader /\ loaderCalls[i].ok}

C10_PlacementOrder ==
    /\ pc = "caption" => (blip_model.dev = "gpu" /\ clip_model.dev = "gpu")
    /\ AllBefore(trace, "load", "caption")
    /\ (~cfg.keep /\ pc \in {"encode", "artist", "cats"}) =>
          /\ blip_model.dev = "cpu"
          /\ clip_model.dev = "gpu"
    /\ ~cfg.keep =>
          /\ AllBefore(trace, "caption", "blip_to_cpu")
          /\ \A e \in {"encode_image", "rank"} :
                \A j \in Positions(trace, e) :
                   \E b \in Positions(trace, "blip_to_cpu"), g \in Positions(trace, "gc") :
                      b < g /\ g < j
    /\ (cfg.lowvram /\ "load" \in Range(trace)) =>
          /\ Len(trace) >= 3
          /\ SubSeq(trace, 1, 3) = <<"all_to_cpu", "gc", "load">>

\* C10 witness: ranking the second category, keep flag unset, lowvram set.
C10_Witness ==
    /\ pc = "cats"
    /\ ci = 2
    /\ ~cfg.keep
    /\ cfg.lowvram
    /\ "rank" \in Range(trace)

\* the occurrences of ".top<N>." in s: <<i, k>> where ".top" starts at i,
\* digits fill i+4..k-1 and the closing "." is at k
Occurrences(s) ==
    {o \in (1..Len(s)) \X (1..Len(s)) :
        /\ o[1] + 4 < o[2]
        /\ SubSeq(s, o[1], o[1] + 3) = Str_top
        /\ \A j \in (o[1] + 4)..(o[2] - 1) : s[j] \in Digits
        /\ s[o[2]] = "."}

RECURSIVE Pow10(_)
Pow10(n) == IF n = 0 THEN 1 ELSE 10 * Pow10(n - 1)

RECURSIVE DecimalFrom(_, _)
\* the decimal value of the digits ds[j..], by place value
DecimalFrom(ds, j) ==
    IF j > Len(ds) THEN 0
    ELSE DigitVal(ds[j]) * Pow10(Len(ds) - j) + DecimalFrom(ds, j + 1)

\* N of the first occurrence of ".top<N>." in s, and 1 when there is none
FirstTopN(s) ==
    IF Occurrences(s) = {} THEN 1
    ELSE LET o == CHOOSE x \in Occurrences(s) : \A y \in Occurrences(s) : x[1] <= y[1]
         IN  DecimalFrom(SubSeq(s, o[1] + 4, o[2] - 1), 1)

\* item is line without its leading and trailing whitespace
IsStripped(line, item) ==
    \E a \in 0..Len(line), b \in 0..Len(line) :
        /\ a + b <= Len(line)
        /\ item = SubSeq(line, a + 1, Len(line) - b)
        /\ \A i \in 1..a : line[i] \in Whitespace
        /\ \A i \in (Len(line) - b + 1)..Len(line) : line[i] \in Whitespace
        /\ item # <<>> => (item[1] \notin Whitespace /\ item[Len(item)] \notin Whitespace)

\* C7: __init__ makes one Category per file of the content directory, in
\* listing order, whose topn is the N of the first ".top<N>." of the file
\* name (1 when there is none) and whose items are the file's lines,
\* stripped, in file order; a missing directory gives no category.
C7_CategoriesFromFiles ==
    /\ initPc = "loop" => Len(categories) = fi - 1
    /\ initPc = "done" =>
          IF ~dirExists THEN categories = <<>>
          ELSE /\ Len(categories) = Len(content)
               /\ \A i \in 1..Len(content) :
                     /\ categories[i].name = content[i].name
                     /\ categories[i].topn = FirstTopN(content[i].name)
                     /\ Len(categories[i].items) = Len(content[i].lines)
                     /\ \A j \in 1..Len(content[i].lines) :
                           IsStripped(content[i].lines[j], categories[i].items[j])

\* C7 witness: a directory of two files, the second named .top1.top2. with
\* lines that carry whitespace, has been read.
C7_Witness ==
    /\ initPc = "done"
    /\ Len(content) = 2
    /\ content[2].name = Str_top \o <<"1">> \o Str_top \o <<"2", ".">>
    /\ content[2].lines = RawLinesA
    /\ categories[2].topn = 1
    /\ categories[2].items = << <<"a">>, <<"b">>, <<>>, <<"a", " ", "b">> >>
    /\ categories[1].topn = 1

\* the candidate list L of a rank call and its averaged similarity
Candidates(r) ==
    IF cfg.dict_limit = 0 THEN r.text_array
    ELSE [i \in 1..Min(cfg.dict_limit, Len(r.text_array)) |-> r.text_array[i]]

RECURSIVE Total(_, _, _)
Total(scores, j, is) ==
    IF is = {} THEN 0
    ELSE LET i == CHOOSE x \in is : TRUE
         IN  scores[i][j] + Total(scores, j, is \ {i})

Averaged(r, j) == Total(r.scores, j, DOMAIN r.scores) \div Len(r.scores)

\* the labels one category contributes
BlockLen(c) ==
    Min(c.topn, IF cfg.dict_limit = 0 THEN Len(c.items)
                ELSE Min(cfg.dict_limit, Len(c.items)))

RECURSIVE BlocksLen(_)
BlocksLen(n) == IF n = 0 THEN 0 ELSE BlocksLen(n - 1) + BlockLen(categories[n])

\* C8: rank returns min(N, len(L)) entries of the candidate list L, taken at
\* distinct indices, in non-increasing order of the averaged similarity, and
\* no candidate left out has a higher averaged similarity than one returned;
\* interrogate appends the labels of each category in category order.
C8_RankTopN ==
    /\ rk.called =>
          LET L == Candidates(rk)
              k == Min(rk.top_count, Len(L))
          IN  /\ Len(rk.result) = k
              /\ Len(rk.out) = k
              /\ \A i \in 1..k :
                    /\ rk.out[i] \in 1..Len(L)
                    /\ rk.result[i].label = L[rk.out[i]]
              /\ \A i, j \in 1..k : i # j => rk.out[i] # rk.out[j]
              /\ \A i, j \in 1..k : i < j => Averaged(rk, rk.out[i]) >= Averaged(rk, rk.out[j])
              /\ \A c \in (1..Len(L)) \ Range(rk.out) :
                    \A i \in 1..k : Averaged(rk, c) <= Averaged(rk, rk.out[i])
    /\ (pc \in {"cats", "unload", "returned"} /\ ~Failed) =>
          LET a == Len(parts) - BlocksLen(ci - 1)
          IN  /\ a = (IF cfg.use_artists THEN 1 ELSE 0)
              /\ res.str = caption \o JoinParts(parts)
              /\ \A n \in 1..(ci - 1) :
                    \A i \in 1..BlockLen(categories[n]) :
                       parts[a + BlocksLen(n - 1) + i] \in Range(categories[n].items)

\* C8 witness: a direct rank call on two image embeddings, the candidate
\* list cut from three to two entries, both returned, the first strictly
\* more similar than the second.
C8_Witness ==
    /\ pc = "ranked"
    /\ Len(rk.scores) = 2
    /\ cfg.dict_limit = 2
    /\ Len(rk.text_array) = 3
    /\ rk.top_count = 3
    /\ Len(rk.result) = 2
    /\ Averaged(rk, rk.out[1]) > Averaged(rk, rk.out[2])

UpEnded == upc \in {"returned", "raised"}

\* C2: when building the diffusion model fails (fetching the checkpoint and
\* config files, or loading them into a model), load_model yields None and
\* do_upscale returns the input image unmodified instead of raising.
C2_FailureReturnsOriginal ==
    (UpEnded /\ ({"fetch_raised", "load_raised"} \cap Range(utrace) # {})) =>
        /\ uret.kind = "return"
        /\ uret.image = img
        /\ ldsr = "None"

\* C5: no model is kept between calls: once a super_resolution invocation
\* that loaded its model has ended, the model is released and gc.collect /
\* empty_cache ran after the release; nothing an earlier call loaded is
\* held when the next call starts.
C5_ReleasedAfterEachCall ==
    /\ (UpEnded /\ "loaded" \in Range(utrace)) =>
          /\ model # "gpu"
          /\ utrace[Len(utrace)] = "gc"
    /\ held = 0

\* q is floor(a / b)
IsFloor(q, a, b) == b * q <= a /\ a < b * (q + 1)

\* C9: the sampler is given an image of size (floor(w*s/4), floor(h*s/4)),
\* both sides at least 1; the resize is skipped exactly when s = 4; the
\* image returned is 4 times that size, which is (s*w, s*h) when s*w and
\* s*h are multiples of 4.
C9_DownsampleSizes ==
    /\ upc \in {"sr_run", "sr_release"} =>
          /\ IsFloor(lowres.w, img.w * scale, 4)
          /\ IsFloor(lowres.h, img.h * scale, 4)
          /\ lowres.w >= 1 /\ lowres.h >= 1
          /\ "resize" \in Range(utrace) <=> scale # 4
    /\ (upc = "returned" /\ uret.kind = "return") =>
          /\ \E qw, qh \in 0..(MaxDim * MaxScale) :
                /\ IsFloor(qw, img.w * scale, 4)
                /\ IsFloor(qh, img.h * scale, 4)
                /\ uret.image = [w |-> 4 * qw, h |-> 4 * qh]
          /\ ((img.w * scale) % 4 = 0 /\ (img.h * scale) % 4 = 0) =>
                uret.image = [w |-> scale * img.w, h |-> scale * img.h]

\* C9 witness: a 3 x 4 image upscaled by 3 came back 8 x 12, and the sampler
\* was given 2 x 3.
C9_Witness ==
    /\ upc = "returned"
    /\ uret.kind = "return"
    /\ img = [w |-> 3, h |-> 4]
    /\ scale = 3
    /\ lowres = [w |-> 2, h |-> 3]
    /\ uret.image = [w |-> 8, h |-> 12]

====
